---- MODULE Spec2Model ----
(***************************************************************************)
(* Model of project-gc: the clone / pull materialisation of an S3 bucket   *)
(* into a local directory (main.js) and the chokidar watcher handlers      *)
(* (main.js 'listen-for-changes' and the folder-explorer main process).    *)
(*                                                                         *)
(* Strings are sequences of one-character strings, so that split, join,    *)
(* slice and lastIndexOf are computed as the code computes them.  A local  *)
(* location is the sequence of the path's segment names.                   *)
(***************************************************************************)
EXTENDS Integers, Sequences, FiniteSets, TLC

VARIABLES
  platform,     \* process.platform family: "win32" or "posix"
  remote,       \* the bucket: key -> content (object store, one repository)
  fs,           \* the local filesystem: location -> entry
  pending,      \* write streams whose data has not reached the file yet
  store,        \* electron-store: the repository record and 'activeRepo'
  kind,         \* the sync handler in flight: "none", "clone", "pull"
  pc,           \* the position of that handler
  stack,        \* pending recursive calls of cloneCloudRepo / pullCloudRepo
  dialogs,      \* the title of the alertDialog the last request showed, or "none"
  target,       \* the folderPath argument of the walk, as a location
  opLog,        \* what the handler in flight has done (fetches, writes, mkdirs),
                \* kept after it failed until the disk next changes
  pre,          \* the entries and kinds on disk when the handler in flight
                \* started walking; the disk itself while no handler runs
  lastCheck,    \* the last isFileModified call and its result
  edits,        \* number of changes made by other clients and by the user
  opCount,      \* number of sync handlers started
  streak,       \* pull-repo requests in a row with nothing changed in between
  watcher,      \* explorer main process: the global watcher (0: undefined/null)
  folderPath,   \* explorer main process: the global folderPath
  subs,         \* every chokidar watcher created so far: owner, path, live
  observed,     \* the events chokidar has handed to 'all' callbacks, in order
  emitted,      \* the messages the callbacks have sent to their consumer
  ipcError,     \* how the last watch-start handler ended
  shown,        \* explorer main process: what its last handler returned
  builds,       \* the last two runs of the hierarchy builder: listing, result
  suspended,    \* a second sync handler, waiting at an await of its own
  upload        \* the clone-local-repo handler: position, pending directory
                \* entries of cloneLocalRepo, the key each local file was put under

watchVars == <<watcher, folderPath, subs, observed, emitted, ipcError, shown>>

auxVars == <<builds, suspended, upload>>

vars == <<platform, remote, fs, pending, store, kind, pc, stack, dialogs,
          target, opLog, pre, lastCheck, edits, opCount, streak, watchVars, auxVars>>

----------------------------------------------------------------------------
(* Bounds *)

MaxKeys == 3          \* objects in the bucket at any time
MaxEdits == 1         \* changes by other clients of the bucket and by the user
MaxOps == 2           \* clone-repo / pull-repo requests
MaxWatchers == 2      \* chokidar watchers created
MaxEvents == 2        \* events handed to watcher callbacks

----------------------------------------------------------------------------
(* Strings *)

Slash == "/"
Backslash == "\\"

\* String.prototype.split('/')
RECURSIVE SplitFrom(_, _)
SplitFrom(s, cur) ==
  IF s = <<>> THEN <<cur>>
  ELSE IF Head(s) = Slash THEN <<cur>> \o SplitFrom(Tail(s), <<>>)
  ELSE SplitFrom(Tail(s), Append(cur, Head(s)))

Split(key) == SplitFrom(key, <<>>)

\* Array.prototype.join('/')
RECURSIVE JoinSlash(_)
JoinSlash(parts) ==
  IF Len(parts) = 0 THEN <<>>
  ELSE IF Len(parts) = 1 THEN parts[1]
  ELSE parts[1] \o <<Slash>> \o JoinSlash(Tail(parts))

\* String.prototype.lastIndexOf(ch), 0-based, -1 when absent
LastIndexOf(s, ch) ==
  LET hits == {i \in 1..Len(s) : s[i] = ch}
  IN IF hits = {} THEN -1 ELSE (CHOOSE i \in hits : \A j \in hits : j <= i) - 1

\* String.prototype.slice(0, end), a negative end counting from the end
Slice0(s, end) ==
  LET e == IF end < 0 THEN (IF Len(s) + end < 0 THEN 0 ELSE Len(s) + end)
           ELSE IF end > Len(s) THEN Len(s) ELSE end
  IN SubSeq(s, 1, e)

----------------------------------------------------------------------------
(* Paths *)

Separators == IF platform = "win32" THEN {Slash, Backslash} ELSE {Slash}

\* how the platform's path module and filesystem read a path string: the
\* segment names between separators, empty segments dropped
RECURSIVE SegsFrom(_, _)
SegsFrom(s, cur) ==
  IF s = <<>> THEN (IF cur = <<>> THEN <<>> ELSE <<cur>>)
  ELSE IF Head(s) \in Separators
       THEN (IF cur = <<>> THEN <<>> ELSE <<cur>>) \o SegsFrom(Tail(s), <<>>)
       ELSE SegsFrom(Tail(s), Append(cur, Head(s)))

Resolve(str) == SegsFrom(str, <<>>)

\* path.join(folder, name) for a folder already resolved to a location
PathJoin(loc, name) == loc \o Resolve(name)

\* path.dirname
Dirname(loc) == IF loc = <<>> THEN <<>> ELSE SubSeq(loc, 1, Len(loc) - 1)

Prefixes(loc) == {SubSeq(loc, 1, i) : i \in 0..Len(loc)}

----------------------------------------------------------------------------
(* Content hashing *)

Empty == <<>>
Contents == {<<1>>, <<2>>}

\* crypto.createHash('sha256') fed chunk by chunk: an injective fold of the
\* bytes (collision resistance), rendered by digest('hex')
RECURSIVE HashUpdate(_, _)
HashUpdate(h, chunk) ==
  IF chunk = <<>> THEN h ELSE HashUpdate(h * 4 + Head(chunk), Tail(chunk))

Digest(content) == <<"x", HashUpdate(1, content)>>

Null == <<"null">>

----------------------------------------------------------------------------
(* HierarchyBuilder: getBucketHierarchy *)

TypeError == [type |-> "TypeError"]

FolderNode(name, path) ==
  [name |-> name, path |-> path, type |-> "folder", isModified |-> FALSE,
   children |-> <<>>]

FileNode(name, path) ==
  [name |-> name, path |-> path, type |-> "file", isModified |-> FALSE]

\* children.find((child) => child.name === folderName): index, 0 when none
FindChild(children, name) ==
  LET hits == {i \in 1..Len(children) : children[i].name = name}
  IN IF hits = {} THEN 0 ELSE CHOOSE i \in hits : \A j \in hits : i <= j

\* the walk of one key from loop index i with currentFolder = node
RECURSIVE InsertKey(_, _, _, _)
InsertKey(node, parts, i, key) ==
  IF "children" \notin DOMAIN node THEN TypeError
  ELSE IF i >= Len(parts)
  THEN [node EXCEPT !.children = Append(@, FileNode(parts[Len(parts)], key))]
  ELSE LET idx == FindChild(node.children, parts[i])
       IN IF idx = 0
          THEN LET sub == InsertKey(FolderNode(parts[i], JoinSlash(SubSeq(parts, 1, i))),
                                    parts, i + 1, key)
               IN [node EXCEPT !.children = Append(@, sub)]
          ELSE LET sub == InsertKey(node.children[idx], parts, i + 1, key)
               IN IF sub.type = "TypeError" THEN TypeError
                  ELSE [node EXCEPT !.children[idx] = sub]

RECURSIVE InsertAll(_, _)
InsertAll(hierarchy, contents) ==
  IF hierarchy.type = "TypeError" \/ contents = <<>> THEN hierarchy
  ELSE InsertAll(InsertKey(hierarchy, Split(Head(contents)), 1, Head(contents)),
                 Tail(contents))

\* contents is res.Contents: the listed keys, or "undefined" (0 keys listed)
BuildHierarchy(contents, friendlyName) ==
  IF contents = <<>> THEN TypeError
  ELSE InsertAll(FolderNode(friendlyName, <<>>), contents)

----------------------------------------------------------------------------
(* Object store *)

KeyUniverse == {<<"a">>, <<"b">>, <<"a", "/">>, <<"a", "/", "b">>}

IsPlaceholder(key) == key # <<>> /\ key[Len(key)] = Slash

\* what an uploader stores under a key: placeholders are zero-length objects
BodiesFor(key) == IF IsPlaceholder(key) THEN {Empty} ELSE Contents

\* the body a key is first uploaded with
InitialBody(key) == IF IsPlaceholder(key) THEN Empty ELSE <<1>>

CharCode(c) ==
  CASE c = "/" -> 47 [] c = "\\" -> 92 [] c = "a" -> 97 [] c = "b" -> 98
    [] c = "n" -> 110 [] c = "r" -> 114 [] c = "s" -> 115 [] c = "u" -> 117
    [] c = "w" -> 119

\* UTF-8 binary order, the order in which ListObjectsV2 returns keys
RECURSIVE KeyLess(_, _)
KeyLess(s, t) ==
  IF t = <<>> THEN FALSE
  ELSE IF s = <<>> THEN TRUE
  ELSE IF Head(s) # Head(t) THEN CharCode(Head(s)) < CharCode(Head(t))
  ELSE KeyLess(Tail(s), Tail(t))

RECURSIVE ListObjects(_)
ListObjects(keys) ==
  IF keys = {} THEN <<>>
  ELSE LET first == CHOOSE k \in keys : \A o \in keys \ {k} : KeyLess(k, o)
       IN <<first>> \o ListObjects(keys \ {first})

----------------------------------------------------------------------------
(* Local filesystem *)

Dir == [kind |-> "dir", content |-> Empty]
File(c) == [kind |-> "file", content |-> c]

Exists(f, loc) == loc \in DOMAIN f
IsDir(f, loc) == loc \in DOMAIN f /\ f[loc].kind = "dir"
IsFile(f, loc) == loc \in DOMAIN f /\ f[loc].kind = "file"

\* fs.promises.mkdir(loc, { recursive: true }) rejects when a file is in the way
MkdirFails(f, loc) == \E p \in Prefixes(loc) : IsFile(f, p)

\* mutant: the directory is recreated empty (remove, then mkdir)
Mkdir_Fresh(f, loc) ==
  [p \in {q \in DOMAIN f : ~(Len(q) > Len(loc) /\ SubSeq(q, 1, Len(loc)) = loc)}
         \cup Prefixes(loc) |-> IF p \in DOMAIN f THEN f[p] ELSE Dir]

Mkdir(f, loc) ==
  [p \in DOMAIN f \cup Prefixes(loc) |-> IF p \in DOMAIN f THEN f[p] ELSE Dir]

\* fs.createWriteStream(loc): flag 'w' creates or truncates the file
OpenFails(f, loc) == IsDir(f, loc) \/ ~IsDir(f, Dirname(loc))

OpenForWrite(f, loc) ==
  [p \in DOMAIN f \cup {loc} |-> IF p = loc THEN File(Empty) ELSE f[p]]

\* the entries of a file system and their kinds, as fs.existsSync sees them
Snapshot(f) == [p \in DOMAIN f |-> [kind |-> f[p].kind]]

----------------------------------------------------------------------------
(* The repository and the machine *)

FriendlyName == <<"r", "s">>

\* directories the user can pick in the folder dialog
BaseDirs ==
  IF platform = "win32" THEN {<<Backslash, "u", Backslash, "w">>}
  ELSE {<<Slash, "u", Slash, "w">>}

NoStore == [hasRepo |-> FALSE, folderPath |-> <<>>, activeRepo |-> FALSE]

\* store.set(repoUniqueName, { ..., folderPath: folderPath + '/' + friendlyName })
ClonedStore(base, active) ==
  [hasRepo |-> TRUE, folderPath |-> base \o <<Slash>> \o FriendlyName,
   activeRepo |-> active]

NoLog == [listed |-> <<>>, root |-> <<>>, fetched |-> {}, writes |-> {},
          mkdirs |-> {}, lost |-> {}]

NoCheck == [called |-> FALSE]

Quiet == pc \in {"idle", "failed", "hung"}

Init ==
  /\ platform \in {"win32", "posix"}
  /\ \E keys \in SUBSET KeyUniverse :
       /\ Cardinality(keys) <= MaxKeys
       /\ remote = [k \in keys |-> InitialBody(k)]
  /\ \E base \in BaseDirs :
       /\ fs = Mkdir(<<>> :> Dir, Resolve(base))
       /\ store \in {NoStore, ClonedStore(base, TRUE)}
  /\ pending = {}
  /\ kind = "none"
  /\ pc = "idle"
  /\ stack = <<>>
  /\ dialogs = "none"
  /\ target = <<>>
  /\ opLog = NoLog
  /\ pre = Snapshot(fs)
  /\ lastCheck = NoCheck
  /\ edits = 0
  /\ opCount = 0
  /\ streak = 0
  /\ watcher = 0
  /\ folderPath = <<>>
  /\ subs = <<>>
  /\ observed = <<>>
  /\ emitted = <<>>
  /\ ipcError = "none"
  /\ shown = [by |-> "none", tree |-> FALSE, value |-> <<>>]
  /\ builds = <<>>
  /\ suspended = [kind |-> "none", pc |-> "idle", stack |-> <<>>, target |-> <<>>,
                  opLog |-> NoLog, pre |-> pre, lastCheck |-> NoCheck]
  /\ upload = [pc |-> "idle", root |-> <<>>, stack |-> <<>>, put |-> {}]

----------------------------------------------------------------------------
(* ipcMain handlers: clone-repo and pull-repo *)

\* clone-repo up to the call of getBucketHierarchy
CloneRepo(base) ==
  /\ Quiet
  /\ opCount < MaxOps
  /\ opCount' = opCount + 1
  /\ store' = ClonedStore(base, store.activeRepo)
  /\ kind' = "clone"
  /\ pc' = "list"
  /\ target' = Resolve(base)
  /\ stack' = <<>>
  /\ opLog' = NoLog
  /\ pre' = Snapshot(fs)
  /\ lastCheck' = NoCheck
  /\ streak' = 0
  /\ dialogs' = "none"
  /\ UNCHANGED <<platform, remote, fs, pending, edits, watchVars, auxVars>>

\* pull-repo up to the call of getBucketHierarchy; getActiveRepoLocal() is
\* null when no repository is active and activeRepo.uniqueName then throws
PullRepo ==
  /\ Quiet
  /\ opCount < MaxOps
  /\ opCount' = opCount + 1
  /\ kind' = "pull"
  /\ pc' = IF store.activeRepo /\ store.hasRepo THEN "list" ELSE "failed"
  /\ target' = <<>>
  /\ stack' = <<>>
  /\ opLog' = NoLog
  /\ pre' = Snapshot(fs)
  /\ lastCheck' = NoCheck
  /\ streak' = IF streak >= 1 THEN 2 ELSE 1
  /\ dialogs' = "none"
  /\ UNCHANGED <<platform, remote, fs, pending, store, edits, watchVars, auxVars>>

\* the folderPath pull-repo passes to pullCloudRepo
PullFolder(stored) ==
  Resolve(Slice0(stored, LastIndexOf(stored, Backslash)))

\* getBucketHierarchy and the first call of cloneCloudRepo / pullCloudRepo
GetBucketHierarchy ==
  /\ pc = "list"
  /\ LET contents == ListObjects(DOMAIN remote)
         hierarchy == BuildHierarchy(contents, FriendlyName)
         folder == IF kind = "clone" THEN target ELSE PullFolder(store.folderPath)
     IN IF hierarchy.type = "TypeError"
        THEN /\ pc' = "failed"
             /\ UNCHANGED <<stack, target, opLog, pre>>
        ELSE /\ pc' = "walk"
             /\ target' = folder
             /\ stack' = <<[node |-> hierarchy, base |-> folder]>>
             /\ opLog' = [NoLog EXCEPT !.listed = contents,
                                       !.root = PathJoin(folder, hierarchy.name)]
             /\ pre' = Snapshot(fs)
  /\ UNCHANGED <<platform, remote, fs, pending, store, kind, dialogs, lastCheck,
                 edits, opCount, streak, watchVars, auxVars>>

----------------------------------------------------------------------------
(* ChangeDetector *)

\* calculateCloudFileHash: a failed GetObject is caught and yields null
CalculateCloudFileHash(r, key) ==
  IF key \in DOMAIN r THEN Digest(r[key]) ELSE Null

\* calculateLocalFileHash: the read stream of anything but a file errors and
\* the promise rejects
LocalHashRejects(f, loc) == ~IsFile(f, loc)

CalculateLocalFileHash(f, loc) == Digest(f[loc].content)

\* mutant: the comparison of the two digests is inverted
IsFileModified_Inverted(r, f, key, loc) ==
  IF ~Exists(f, loc) THEN [threw |-> FALSE, value |-> TRUE]
  ELSE IF LocalHashRejects(f, loc) THEN [threw |-> TRUE, value |-> FALSE]
  ELSE [threw |-> FALSE,
        value |-> CalculateCloudFileHash(r, key) = CalculateLocalFileHash(f, loc)]

IsFileModified(r, f, key, loc) ==
  IF ~Exists(f, loc) THEN [threw |-> FALSE, value |-> TRUE]
  ELSE IF LocalHashRejects(f, loc) THEN [threw |-> TRUE, value |-> FALSE]
  ELSE [threw |-> FALSE,
        value |-> CalculateCloudFileHash(r, key) # CalculateLocalFileHash(f, loc)]

CheckRecord(r, f, key, loc, res) ==
  [called |-> TRUE, key |-> key, loc |-> loc,
   hasRemote |-> key \in DOMAIN r,
   remoteBody |-> IF key \in DOMAIN r THEN r[key] ELSE Empty,
   localKind |-> IF Exists(f, loc) THEN f[loc].kind ELSE "none",
   localBody |-> IF Exists(f, loc) THEN f[loc].content ELSE Empty,
   threw |-> res.threw, value |-> res.value]

----------------------------------------------------------------------------
(* TreeMaterializer *)

\* getFileContentFromS3: "null" when GetObject fails (caught), "hung" when
\* the write stream cannot open (its 'error' has no listener and the source
\* never ends), else the file is created or truncated and the promise
\* resolves on the source's 'end', with the data still on its way to the file
FetchOutcome(r, f, key, loc) ==
  IF key \notin DOMAIN r THEN "null"
  ELSE IF OpenFails(f, loc) THEN "hung"
  ELSE "ok"

InFlight(r, key, loc) == [loc |-> loc, content |-> r[key]]

\* mutant: the loop over the children stops one short
ChildFrames_SkipLast(node, dest) ==
  [i \in 1..(Len(node.children) - 1) |-> [node |-> node.children[i], base |-> dest]]

ChildFrames(node, dest) ==
  [i \in 1..Len(node.children) |-> [node |-> node.children[i], base |-> dest]]

AfterVisit(rest) == IF rest = <<>> THEN "returned" ELSE "walk"

\* mutant: the existence check is dropped
CloneFetches_Always(f, dest) == TRUE

\* mutant: an existing file is fetched again, as pull does for a changed one
CloneFetches_Overwrite(f, dest) == ~Exists(f, dest) \/ IsFile(f, dest)

\* if (!fs.existsSync(destinationPath)) in the file branch of cloneCloudRepo
CloneFetches(f, dest) == ~Exists(f, dest)

\* if (!fs.existsSync(destinationPath)) in the folder branches
FolderCreates(f, dest) == ~Exists(f, dest)

\* the folder branch of cloneCloudRepo and pullCloudRepo
VisitFolder(node, dest, rest) ==
  /\ IF FolderCreates(fs, dest) /\ MkdirFails(fs, dest)
     THEN /\ pc' = "failed"
          /\ UNCHANGED <<fs, stack, opLog>>
     ELSE /\ fs' = IF FolderCreates(fs, dest) THEN Mkdir(fs, dest) ELSE fs
          /\ opLog' = [opLog EXCEPT !.mkdirs = @ \cup (DOMAIN fs' \ DOMAIN fs)]
          /\ stack' = ChildFrames(node, dest) \o rest
          /\ pc' = AfterVisit(stack')
  /\ lastCheck' = NoCheck
  /\ UNCHANGED pending

\* the file branch of cloneCloudRepo
CloneVisitFile(node, dest, rest) ==
  /\ IF ~CloneFetches(fs, dest)
     THEN /\ stack' = rest
          /\ pc' = AfterVisit(rest)
          /\ UNCHANGED <<fs, pending, opLog>>
     ELSE LET out == FetchOutcome(remote, fs, node.path, dest)
          IN /\ opLog' = [opLog EXCEPT
                            !.fetched = @ \cup {node.path},
                            !.lost = IF out = "null" THEN @ \cup {node.path} ELSE @,
                            !.writes = IF out = "ok"
                                       THEN @ \cup {InFlight(remote, node.path, dest)}
                                       ELSE @]
             /\ IF out = "ok"
                THEN /\ fs' = OpenForWrite(fs, dest)
                     /\ pending' = pending \cup {InFlight(remote, node.path, dest)}
                     /\ stack' = rest
                     /\ pc' = AfterVisit(rest)
                ELSE \* path.dirname(null) throws, or the promise never settles
                     /\ pc' = IF out = "null" THEN "failed" ELSE "hung"
                     /\ UNCHANGED <<fs, pending, stack>>
  /\ lastCheck' = NoCheck

CloneCloudRepo ==
  /\ pc = "walk"
  /\ kind = "clone"
  /\ LET node == Head(stack).node
         dest == PathJoin(Head(stack).base, node.name)
     IN IF node.type = "file" THEN CloneVisitFile(node, dest, Tail(stack))
        ELSE VisitFolder(node, dest, Tail(stack))
  /\ UNCHANGED <<platform, remote, store, kind, dialogs, target, pre,
                 edits, opCount, streak, watchVars, auxVars>>

\* pullCloudRepo up to the decision taken on isFileModified
PullVisitFile(node, dest, rest) ==
  LET res == IsFileModified(remote, fs, node.path, dest)
  IN /\ lastCheck' = CheckRecord(remote, fs, node.path, dest, res)
     /\ opLog' = [opLog EXCEPT !.fetched = IF Exists(fs, dest)
                                           THEN @ \cup {node.path} ELSE @]
     /\ IF res.threw
        THEN pc' = "failed" /\ stack' = stack
        ELSE IF res.value
        THEN pc' = "fetch" /\ stack' = stack
        ELSE pc' = AfterVisit(rest) /\ stack' = rest
     /\ UNCHANGED <<fs, pending>>

PullCloudRepo ==
  /\ pc = "walk"
  /\ kind = "pull"
  /\ LET node == Head(stack).node
         dest == PathJoin(Head(stack).base, node.name)
     IN IF node.type = "file" THEN PullVisitFile(node, dest, Tail(stack))
        ELSE VisitFolder(node, dest, Tail(stack))
  /\ UNCHANGED <<platform, remote, store, kind, dialogs, target, pre,
                 edits, opCount, streak, watchVars, auxVars>>

\* the isModified branch of pullCloudRepo: mkdir of the parent, then the
\* fetch, whose null result is ignored
PullFetch ==
  /\ pc = "fetch"
  /\ LET node == Head(stack).node
         dest == PathJoin(Head(stack).base, node.name)
         rest == Tail(stack)
     IN IF MkdirFails(fs, Dirname(dest))
        THEN /\ pc' = "failed"
             /\ UNCHANGED <<fs, pending, stack, opLog>>
        ELSE LET made == Mkdir(fs, Dirname(dest))
                 out == FetchOutcome(remote, made, node.path, dest)
             IN /\ opLog' = [opLog EXCEPT
                               !.fetched = @ \cup {node.path},
                               !.mkdirs = @ \cup (DOMAIN made \ DOMAIN fs),
                               !.lost = IF out = "null" THEN @ \cup {node.path} ELSE @,
                               !.writes = IF out = "ok"
                                          THEN @ \cup {InFlight(remote, node.path, dest)}
                                          ELSE @]
                /\ fs' = IF out = "ok" THEN OpenForWrite(made, dest) ELSE made
                /\ pending' = IF out = "ok"
                              THEN pending \cup {InFlight(remote, node.path, dest)}
                              ELSE pending
                /\ IF out = "hung"
                   THEN pc' = "hung" /\ stack' = stack
                   ELSE pc' = AfterVisit(rest) /\ stack' = rest
  /\ lastCheck' = NoCheck
  /\ UNCHANGED <<platform, remote, store, kind, dialogs, target, pre,
                 edits, opCount, streak, watchVars, auxVars>>

\* the walk has returned: clone-repo sets 'activeRepo'; both show the dialog
HandlerReturns ==
  /\ pc = "returned"
  /\ pc' = "idle"
  /\ store' = IF kind = "clone" THEN [store EXCEPT !.activeRepo = TRUE] ELSE store
  /\ dialogs' = IF kind = "clone" THEN "Clone Complete" ELSE "Pull Complete"
  /\ opLog' = NoLog
  /\ pre' = Snapshot(fs)
  /\ lastCheck' = NoCheck
  /\ UNCHANGED <<platform, remote, fs, pending, kind, stack, target,
                 edits, opCount, streak, watchVars, auxVars>>

\* a write stream's data reaches its file ('finish')
WriteFinishes ==
  \E w \in pending :
    /\ pending' = pending \ {w}
    /\ fs' = IF IsFile(fs, w.loc) THEN [fs EXCEPT ![w.loc] = File(w.content)]
             ELSE fs
    /\ pre' = IF Quiet THEN Snapshot(fs') ELSE pre
    /\ opLog' = IF Quiet THEN NoLog ELSE opLog
    /\ lastCheck' = IF Quiet THEN NoCheck ELSE lastCheck
    /\ UNCHANGED <<platform, remote, store, kind, pc, stack, dialogs, target,
                   edits, opCount, streak, watchVars, auxVars>>

----------------------------------------------------------------------------
(* Environment: other clients of the bucket, the user's own edits *)

\* a change is explored where a handler can still observe it: the changes
\* made before the first request are initial states, and no handler reads
\* those made after the last one
EditAllowed == edits < MaxEdits /\ 0 < opCount /\ opCount < MaxOps

\* another client uploads an object; the handlers read the bucket when they
\* list and when they visit a file, so a change made while a handler lists or
\* returns is the same change made just before or just after
RemotePut ==
  \E k \in KeyUniverse : \E c \in BodiesFor(k) :
    /\ pc \notin {"list", "returned"}
    /\ EditAllowed
    /\ k \in DOMAIN remote => remote[k] # c
    /\ k \notin DOMAIN remote => c = InitialBody(k)
    /\ Cardinality(DOMAIN remote \cup {k}) <= MaxKeys
    /\ remote' = [x \in DOMAIN remote \cup {k} |-> IF x = k THEN c ELSE remote[x]]
    /\ edits' = edits + 1
    /\ streak' = 0
    /\ UNCHANGED <<platform, fs, pending, store, kind, pc, stack, dialogs, target,
                   opLog, pre, lastCheck, opCount, watchVars, auxVars>>

RemoteDelete ==
  \E k \in DOMAIN remote :
    /\ pc \notin {"list", "returned"}
    /\ EditAllowed
    /\ remote' = [x \in DOMAIN remote \ {k} |-> remote[x]]
    /\ edits' = edits + 1
    /\ streak' = 0
    /\ UNCHANGED <<platform, fs, pending, store, kind, pc, stack, dialogs, target,
                   opLog, pre, lastCheck, opCount, watchVars, auxVars>>

\* the name the user creates in a directory of a repository: it is the
\* destination of key 'a' and of folder 'a', and outside the hierarchy of a
\* bucket that holds neither
EditNames == {<<"a">>}

LocalWrite ==
  \E d \in DOMAIN fs : \E nm \in EditNames : \E c \in Contents :
    /\ Quiet
    /\ EditAllowed
    /\ IsDir(fs, d)
    /\ \E i \in 1..Len(d) : d[i] = FriendlyName
    /\ ~IsDir(fs, Append(d, nm))
    /\ IsFile(fs, Append(d, nm)) => fs[Append(d, nm)].content # c
    /\ fs' = [p \in DOMAIN fs \cup {Append(d, nm)} |->
                IF p = Append(d, nm) THEN File(c) ELSE fs[p]]
    /\ edits' = edits + 1
    /\ streak' = 0
    /\ pre' = Snapshot(fs')
    /\ opLog' = NoLog
    /\ lastCheck' = NoCheck
    /\ UNCHANGED <<platform, remote, pending, store, kind, pc, stack, dialogs,
                   target, opCount, watchVars, auxVars>>

LocalMkdir ==
  \E d \in DOMAIN fs : \E nm \in EditNames :
    /\ Quiet
    /\ EditAllowed
    /\ IsDir(fs, d)
    /\ \E i \in 1..Len(d) : d[i] = FriendlyName
    /\ ~Exists(fs, Append(d, nm))
    /\ fs' = Mkdir(fs, Append(d, nm))
    /\ edits' = edits + 1
    /\ streak' = 0
    /\ pre' = Snapshot(fs')
    /\ opLog' = NoLog
    /\ lastCheck' = NoCheck
    /\ UNCHANGED <<platform, remote, pending, store, kind, pc, stack, dialogs,
                   target, opCount, watchVars, auxVars>>

Next ==
  \/ \E base \in BaseDirs : CloneRepo(base)
  \/ PullRepo
  \/ GetBucketHierarchy
  \/ CloneCloudRepo
  \/ PullCloudRepo
  \/ PullFetch
  \/ HandlerReturns
  \/ WriteFinishes
  \/ RemotePut
  \/ RemoteDelete
  \/ LocalWrite
  \/ LocalMkdir

Spec == Init /\ [][Next]_vars

----------------------------------------------------------------------------
(* Properties of clone and pull *)

IsName(seg) == seg # <<>>

\* the local path derived from the first i segments of a key, under the root
\* directory <target>/<rootName> of the walk in flight
SegLoc(key, i) == opLog.root \o SelectSeq(SubSeq(Split(key), 1, i), IsName)

KeyLoc(key) == SegLoc(key, Len(Split(key)))

PrefixLocs(key) == {SegLoc(key, i) : i \in 1..(Len(Split(key)) - 1)}

Listed == {opLog.listed[i] : i \in 1..Len(opLog.listed)}

\* the destinations of the nodes of the hierarchy of the walk in flight
HierDests == {opLog.root} \cup UNION {PrefixLocs(k) \cup {KeyLoc(k)} : k \in Listed}

CloneReturned == kind = "clone" /\ pc = "returned"
PullReturned == kind = "pull" /\ pc = "returned"

\* C1 (as stated): once clone-repo has completed, every listed key is a local
\* file at <target>/<rootName>/<K> and every proper segment-prefix of it is a
\* local directory.
C1_CloneCompleteAsStated ==
  CloneReturned =>
    \A k \in Listed :
      /\ IsFile(fs, KeyLoc(k))
      /\ \A d \in PrefixLocs(k) : IsDir(fs, d)

\* C1 (amended): once clone-repo has completed, an entry exists at the path
\* of every listed key and of every proper segment-prefix of it; a prefix
\* path that did not exist before the clone is a directory, and the path of
\* a key that does not end in '/' and did not exist before the clone is a
\* file.
C1_CloneComplete ==
  CloneReturned =>
    \A k \in Listed :
      /\ Exists(fs, KeyLoc(k))
      /\ (~IsPlaceholder(k) /\ ~Exists(pre, KeyLoc(k))) => IsFile(fs, KeyLoc(k))
      /\ \A d \in PrefixLocs(k) :
           /\ Exists(fs, d)
           /\ ~Exists(pre, d) => IsDir(fs, d)

C1_Witness ==
  /\ CloneReturned
  /\ \E k \in Listed : Len(Split(k)) > 1 /\ ~IsPlaceholder(k)
                       /\ ~Exists(pre, KeyLoc(k)) /\ IsFile(fs, KeyLoc(k))

\* C2 (as stated): a pull-repo that follows a pull-repo, with no remote or
\* local change since the first one started, writes no file and creates no
\* directory.
C2_PullIdempotent ==
  (kind = "pull" /\ streak = 2) => (opLog.writes = {} /\ opLog.mkdirs = {})

\* C3: a clone over a destination in which every file and folder of the
\* hierarchy already exists fetches nothing, writes nothing and creates no
\* directory.
C3_CloneIdempotent ==
  (kind = "clone" /\ pc \in {"walk", "returned", "failed", "hung"}
     /\ \A d \in HierDests : Exists(pre, d))
    => (opLog.fetched = {} /\ opLog.writes = {} /\ opLog.mkdirs = {})

C3_Witness ==
  /\ CloneReturned
  /\ \A d \in HierDests : Exists(pre, d)
  /\ \E k \in Listed : ~IsPlaceholder(k) /\ IsFile(pre, KeyLoc(k))

\* C4 (as stated): a clone or pull in which the body of a listed object
\* could not be retrieved does not return normally to show its success
\* dialog.
C4_FetchFailureReported ==
  pc = "returned" => opLog.lost = {}

\* C5: isFileModified returns true when nothing exists at the local path,
\* and for a local file and a retrievable object it returns false exactly
\* when the two digests are equal.
C5_ChangeDetection ==
  lastCheck.called =>
    /\ lastCheck.localKind = "none" => (~lastCheck.threw /\ lastCheck.value)
    /\ (lastCheck.localKind = "file" /\ lastCheck.hasRemote) =>
         /\ ~lastCheck.threw
         /\ (~lastCheck.value) <=>
              (Digest(lastCheck.remoteBody) = Digest(lastCheck.localBody))

C5_Witness ==
  /\ lastCheck.called
  /\ lastCheck.localKind = "file"
  /\ lastCheck.hasRemote
  /\ lastCheck.remoteBody = lastCheck.localBody
  /\ lastCheck.remoteBody # Empty
  /\ ~lastCheck.value

\* C6 (as stated): when clone or pull returns, every file it fetched holds
\* the content the object had when it was fetched.
C6_FetchedContentInPlace ==
  pc = "returned" =>
    \A w \in opLog.writes : IsFile(fs, w.loc) /\ fs[w.loc].content = w.content

\* a step of the walk of the handler in flight
WalkStep == pc \in {"walk", "fetch"} /\ (stack' # stack \/ pc' # pc)

\* C7: no step of a pull removes a local entry, and none changes an entry
\* that is not the destination of a node of the remote hierarchy.
C7_PullNeverDeletes ==
  [][(kind = "pull" /\ WalkStep) =>
       \A d \in DOMAIN fs :
         /\ d \in DOMAIN fs'
         /\ d \notin HierDests => fs'[d] = fs[d]]_vars

C7_Witness ==
  /\ kind = "pull"
  /\ pc \in {"walk", "returned"}
  /\ opLog.writes # {}
  /\ \E d \in DOMAIN pre : /\ Len(d) > Len(opLog.root)
                           /\ SubSeq(d, 1, Len(opLog.root)) = opLog.root
                           /\ d \notin HierDests
                           /\ Exists(fs, d) /\ fs[d].kind = pre[d].kind

\* C8: a clone step that visits a file node whose destination exists
\* changes no local entry and starts no fetch, whatever the object holds.
C8_CloneNeverOverwrites ==
  [][(kind = "clone" /\ pc = "walk" /\ stack' # stack
        /\ Head(stack).node.type = "file"
        /\ Exists(fs, PathJoin(Head(stack).base, Head(stack).node.name)))
      => (fs' = fs /\ pending' = pending /\ opLog' = opLog)]_vars

C8_Witness ==
  /\ CloneReturned
  /\ \E k \in Listed : /\ k \in DOMAIN remote
                       /\ IsFile(pre, KeyLoc(k))
                       /\ IsFile(fs, KeyLoc(k))
                       /\ fs[KeyLoc(k)].content \notin {Empty, remote[k]}
                       /\ opLog.fetched = {}

\* C16 (as stated): a pull materializes into the directory B/N that clone
\* wrote to and that the store records as folderPath.
C16_PullTargetsClonedDirectory ==
  (kind = "pull" /\ pc \in {"walk", "fetch", "returned"})
    => opLog.root = Resolve(store.folderPath)

\* C17 (as stated): isFileModified returns a result to pullCloudRepo and does
\* not throw, whatever is at the local path and whether or not the object
\* can be retrieved.
C17_HashFailureContained ==
  lastCheck.called => ~lastCheck.threw

\* the folder picked for a clone already holds an entry named like the
\* repository, with a file a in it
UserClutters ==
  \E base \in BaseDirs :
    LET root == Append(Resolve(base), FriendlyName)
    IN /\ opCount = 0
       /\ pc = "idle"
       /\ ~Exists(fs, root)
       /\ fs' = [p \in DOMAIN fs \cup {root, Append(root, <<"a">>)} |->
                   IF p \in DOMAIN fs THEN fs[p]
                   ELSE IF p = root THEN Dir ELSE File(<<2>>)]
       /\ pre' = Snapshot(fs')
       /\ UNCHANGED <<platform, remote, pending, store, kind, pc, stack, dialogs,
                      target, opLog, lastCheck, edits, opCount, streak,
                      watchVars, auxVars>>

NextCluttered == Next \/ UserClutters

SpecCluttered == Init /\ [][NextCluttered]_vars

\* a step in which getFileContentFromS3 calls fs.createWriteStream
WriteBegins ==
  /\ pc \in {"walk", "fetch"}
  /\ opLog'.writes # opLog.writes \/ pc' = "hung"

\* C18 (as stated): when a file write to a local path begins, the parent
\* directory of that path exists.
C18_ParentBeforeChild ==
  [][WriteBegins =>
       IsDir(fs', Dirname(PathJoin(Head(stack).base, Head(stack).node.name)))]_vars

----------------------------------------------------------------------------
(* LocalChangeWatcher: the watch-start handlers of the two main processes *)

\* directories the user can pick in the explorer's folder dialog, or the
\* renderer can pass to 'listen-for-changes'
WatchDirs ==
  IF platform = "win32"
  THEN {<<Backslash, "u">>, <<Backslash, "u", Backslash, "w">>}
  ELSE {<<Slash, "u">>, <<Slash, "u", Slash, "w">>}

\* chokidar.watch(path) followed by watcher.on('all', ...)
Watch(owner, path) == [owner |-> owner, path |-> Resolve(path), live |-> TRUE]

LiveSubs(owner) == {i \in 1..Len(subs) : subs[i].live /\ subs[i].owner = owner}

\* the mutant of Close: the watcher is left running
Close_Noop(ss, id) == ss

\* watcher.close()
Close(ss, id) == [ss EXCEPT ![id].live = FALSE]

\* fs.promises.readdir(dir), in name order
ReaddirSeq(dir, names) == [i \in 1..Len(names) |-> Append(dir, names[i])]

\* explorer: getFolderHierarchy, with a node's path kept as a location
RECURSIVE GetFolderHierarchy(_, _)
GetFolderHierarchy(f, loc) ==
  IF IsDir(f, loc)
  THEN LET children == ReaddirSeq(loc,
                         ListObjects({p[Len(p)] : p \in
                           {q \in DOMAIN f : /\ Len(q) = Len(loc) + 1
                                             /\ SubSeq(q, 1, Len(loc)) = loc}}))
       IN [name |-> loc[Len(loc)], path |-> loc, type |-> "folder",
           isModified |-> FALSE,
           children |-> [i \in 1..Len(children) |->
                           GetFolderHierarchy(f, children[i])]]
  ELSE [name |-> loc[Len(loc)], path |-> loc, type |-> "file",
        isModified |-> FALSE]

\* explorer: ipcMain.handle('open-folder-dialog'); canceled and selected
\* are the dialog's answer, result.canceled and result.filePaths[0]
OpenFolderDialog(canceled, selected) ==
  /\ IF ~canceled
     THEN /\ Len(subs) < MaxWatchers
          /\ folderPath' = selected
          /\ subs' = Append(IF watcher # 0 THEN Close(subs, watcher) ELSE subs,
                            Watch("explorer", selected))
          /\ watcher' = Len(subs')
          /\ shown' = [by |-> "open", tree |-> TRUE,
                       value |-> GetFolderHierarchy(fs, Resolve(selected))]
     ELSE /\ folderPath' = <<>>
          /\ subs' = IF watcher # 0 THEN Close(subs, watcher) ELSE subs
          /\ watcher' = 0
          /\ shown' = [by |-> "cancel", tree |-> FALSE, value |-> <<>>]
  /\ ipcError' = "none"
  /\ UNCHANGED <<platform, remote, fs, pending, store, kind, pc, stack, dialogs,
                 target, opLog, pre, lastCheck, edits, opCount, streak,
                 observed, emitted, auxVars>>

\* sync: ipcMain.handle('listen-for-changes'); arg is the watcher argument
\* as it arrives over IPC: "undefined", or a cloned "object", which has no
\* close method.  The new watcher is held by the handler's parameter only,
\* and sendInitialLocalChanges is not defined
ListenForChanges(arg, path) ==
  /\ IF arg = "object"
     THEN /\ ipcError' = "TypeError"
          /\ subs' = subs
     ELSE /\ Len(subs) < MaxWatchers
          /\ subs' = Append(subs, Watch("sync", path))
          /\ ipcError' = "ReferenceError"
  /\ UNCHANGED <<platform, remote, fs, pending, store, kind, pc, stack, dialogs,
                 target, opLog, pre, lastCheck, edits, opCount, streak,
                 watcher, folderPath, observed, emitted, shown, auxVars>>

\* names of the files the user touches in a watched directory
WatchNames == {<<"n">>}

\* the watchers that report a change at loc, in the order they were created
Covering(loc) ==
  SelectSeq([i \in 1..Len(subs) |-> i],
            LAMBDA i : /\ subs[i].live
                       /\ Len(loc) > Len(subs[i].path)
                       /\ SubSeq(loc, 1, Len(subs[i].path)) = subs[i].path)

\* the explorer's callback sends ('file-changed', filePath, event); the
\* sync callback calls handleFileChange(event, filePath), neither of which
\* is defined, and throws before anything is sent
Callback(id, event, loc) ==
  IF subs[id].owner = "explorer"
  THEN <<[sub |-> id, event |-> event, path |-> loc]>>
  ELSE <<>>

RECURSIVE Deliver(_, _, _)
Deliver(ids, event, loc) ==
  IF ids = <<>> THEN <<>>
  ELSE Callback(Head(ids), event, loc) \o Deliver(Tail(ids), event, loc)

Reported(ids, event, loc) ==
  [i \in 1..Len(ids) |-> [sub |-> ids[i], event |-> event, path |-> loc]]

\* the user creates or rewrites a file in a watched directory
UserWrites ==
  \E w \in WatchDirs : \E nm \in WatchNames : \E c \in Contents :
    LET loc == Append(Resolve(w), nm)
        event == IF Exists(fs, loc) THEN "change" ELSE "add"
    IN /\ ~IsDir(fs, loc)
       /\ IsFile(fs, loc) => fs[loc].content # c
       /\ Len(observed) + Len(Covering(loc)) <= MaxEvents
       /\ fs' = [p \in DOMAIN fs \cup {loc} |-> IF p = loc THEN File(c) ELSE fs[p]]
       /\ observed' = observed \o Reported(Covering(loc), event, loc)
       /\ emitted' = emitted \o Deliver(Covering(loc), event, loc)
       /\ UNCHANGED <<platform, remote, pending, store, kind, pc, stack, dialogs,
                      target, opLog, pre, lastCheck, edits, opCount, streak,
                      watcher, folderPath, subs, ipcError, shown, auxVars>>

\* the user deletes a file in a watched directory
UserRemoves ==
  \E w \in WatchDirs : \E nm \in WatchNames :
    LET loc == Append(Resolve(w), nm)
    IN /\ IsFile(fs, loc)
       /\ Len(observed) + Len(Covering(loc)) <= MaxEvents
       /\ fs' = [p \in DOMAIN fs \ {loc} |-> fs[p]]
       /\ observed' = observed \o Reported(Covering(loc), "unlink", loc)
       /\ emitted' = emitted \o Deliver(Covering(loc), "unlink", loc)
       /\ UNCHANGED <<platform, remote, pending, store, kind, pc, stack, dialogs,
                      target, opLog, pre, lastCheck, edits, opCount, streak,
                      watcher, folderPath, subs, ipcError, shown, auxVars>>

NextWatch ==
  \/ \E canceled \in BOOLEAN : \E selected \in WatchDirs :
       OpenFolderDialog(canceled, selected)
  \/ \E arg \in {"undefined", "object"} : \E path \in WatchDirs :
       ListenForChanges(arg, path)
  \/ UserWrites
  \/ UserRemoves

\* the watchers run on their own: no repository registered, an empty bucket
InitWatch == Init /\ store = NoStore /\ DOMAIN remote = {}

SpecWatch == InitWatch /\ [][NextWatch]_vars

----------------------------------------------------------------------------
(* Properties of the watchers *)

\* C9 (as stated): whatever watch-start requests a main process has served,
\* at most one of its watcher subscriptions is live.
C9_SingleSubscription ==
  \A owner \in {"explorer", "sync"} : Cardinality(LiveSubs(owner)) <= 1

OfSub(log, id) == SelectSeq(log, LAMBDA e : e.sub = id)

\* C10 (as stated): every event handed to a subscription's callback has been
\* emitted to the consumer once, with its kind and path, in the same order.
C10_EveryEventEmitted ==
  \A id \in 1..Len(subs) : OfSub(emitted, id) = OfSub(observed, id)

----------------------------------------------------------------------------
(* HierarchyBuilder on its own: getBucketHierarchy on a listing in any order *)

syncVars == <<platform, remote, fs, pending, store, kind, pc, stack, dialogs,
              target, opLog, pre, lastCheck, edits, opCount, streak>>

\* res.Contents: the keys of a bucket, each once, in the order they are listed
Listings ==
  {l \in UNION {[1..n -> KeyUniverse] : n \in 0..MaxKeys} :
     \A i, j \in 1..Len(l) : i # j => l[i] # l[j]}

KeySet(l) == {l[i] : i \in 1..Len(l)}

\* one call of getBucketHierarchy; the last two calls are kept
BuildRun(l) ==
  /\ builds' = (IF builds = <<>> THEN <<>> ELSE <<builds[Len(builds)]>>)
               \o <<[listing |-> l, result |-> BuildHierarchy(l, FriendlyName)]>>
  /\ UNCHANGED <<syncVars, watchVars, suspended, upload>>

NextBuilder == \E l \in Listings : BuildRun(l)

InitBuilder == Init /\ store = NoStore /\ DOMAIN remote = {}

SpecBuilder == InitBuilder /\ [][NextBuilder]_vars

Returned(b) == b.result.type # "TypeError"

RECURSIVE WellFormed(_)
WellFormed(node) ==
  IF node.type = "file" THEN "children" \notin DOMAIN node
  ELSE /\ \A i, j \in 1..Len(node.children) :
            i # j => node.children[i].name # node.children[j].name
       /\ \A i \in 1..Len(node.children) : WellFormed(node.children[i])

RECURSIVE Shape(_)
Shape(node) ==
  IF "children" \notin DOMAIN node
  THEN [name |-> node.name, type |-> node.type, kids |-> {}]
  ELSE [name |-> node.name, type |-> node.type,
        kids |-> {Shape(node.children[i]) : i \in 1..Len(node.children)}]

\* C12 (as stated): two orderings of one non-empty set of keys both return a
\* tree, and the two trees have the same names, kinds and nesting.
C12_OrderIndependent ==
  \A i, j \in 1..Len(builds) :
    (builds[i].listing # <<>>
       /\ KeySet(builds[i].listing) = KeySet(builds[j].listing)) =>
      /\ Returned(builds[i]) /\ Returned(builds[j])
      /\ Shape(builds[i].result) = Shape(builds[j].result)

\* the nodes below a node, in tree order
RECURSIVE Below(_)
Below(node) ==
  IF "children" \notin DOMAIN node THEN <<>>
  ELSE LET F[i \in 0..Len(node.children)] ==
             IF i = 0 THEN <<>>
             ELSE F[i - 1] \o <<node.children[i]>> \o Below(node.children[i])
       IN F[Len(node.children)]

\* the paths of which a key is a proper segment-extension
FolderPrefixes(key) ==
  {JoinSlash(SubSeq(Split(key), 1, i)) : i \in 1..(Len(Split(key)) - 1)}

\* C13 (as stated): for every listing, the empty one too, getBucketHierarchy
\* returns one root folder with path ''; a folder node with a given path is
\* in the tree exactly when a listed key has that path as a proper
\* segment-prefix; every listed key is the path of exactly one file node.
C13_TreeFromListing ==
  \A i \in 1..Len(builds) :
    LET b == builds[i]
        nodes == Below(b.result)
        at(t, p) == {n \in 1..Len(nodes) : nodes[n].type = t /\ nodes[n].path = p}
    IN /\ Returned(b)
       /\ b.result.type = "folder" /\ b.result.path = <<>>
       /\ \A p \in UNION {FolderPrefixes(k) : k \in KeySet(b.listing)} :
            at("folder", p) # {}
       /\ \A n \in 1..Len(nodes) :
            /\ nodes[n].type = "folder" =>
                 \E k \in KeySet(b.listing) : nodes[n].path \in FolderPrefixes(k)
            /\ nodes[n].type = "file" => nodes[n].path \in KeySet(b.listing)
       /\ \A k \in KeySet(b.listing) : Cardinality(at("file", k)) = 1

----------------------------------------------------------------------------
(* Two sync requests at once: ipcMain.handle starts a handler for every     *)
(* request it receives, and an async handler gives way at each await        *)

\* the handler in flight, as a record
Running ==
  [kind |-> kind, pc |-> pc, stack |-> stack, target |-> target,
   opLog |-> opLog, pre |-> pre, lastCheck |-> lastCheck]

\* the event loop leaves the running handler at its await and resumes the
\* other one; when the other one is idle, the next request starts there
Interleave ==
  /\ pc \in {"list", "walk", "fetch", "returned"}
  /\ suspended' = Running
  /\ kind' = suspended.kind
  /\ pc' = suspended.pc
  /\ stack' = suspended.stack
  /\ target' = suspended.target
  /\ opLog' = suspended.opLog
  /\ pre' = suspended.pre
  /\ lastCheck' = suspended.lastCheck
  /\ UNCHANGED <<platform, remote, fs, pending, store, dialogs, edits, opCount,
                 streak, watchVars, builds, upload>>

NextOverlap == Next \/ Interleave

SpecOverlap == Init /\ [][NextOverlap]_vars

Walking(h) == h.pc \in {"walk", "fetch"}

\* C14 (as stated): no two clone or pull operations are in flight on one
\* destination directory at the same time.
C14_OneSyncPerDestination ==
  ~(Walking(Running) /\ Walking(suspended) /\ opLog.root = suspended.opLog.root)

----------------------------------------------------------------------------
(* Upload of a local folder: clone-local-repo and cloneLocalRepo *)

\* fs.promises.readdir(dir): the entries directly in dir
Readdir(f, dir) ==
  {p \in DOMAIN f : Len(p) = Len(dir) + 1 /\ SubSeq(p, 1, Len(dir)) = dir}

\* file.name
Basename(loc) == loc[Len(loc)]

\* the folders the user may have prepared: a, b and what is in a
LocalTrees(root) ==
  LET at(nm) == Append(root, nm)
      in(nm) == Append(at(<<"a">>), nm)
  IN {t \in [{at(<<"a">>), at(<<"b">>), in(<<"a">>), in(<<"b">>)} ->
               {"none", "dir", "one", "two"}] :
        /\ t[at(<<"b">>)] \in {"none", "one"}
        /\ t[in(<<"a">>)] \in {"none", "two"}
        /\ t[in(<<"b">>)] \in {"none", "dir", "two"}
        /\ (t[at(<<"a">>)] # "dir") =>
             (t[in(<<"a">>)] = "none" /\ t[in(<<"b">>)] = "none")}

Entry(k) ==
  IF k = "dir" THEN Dir ELSE IF k = "one" THEN File(<<1>>) ELSE File(<<2>>)

\* the user fills the folder that will be uploaded
UserFills ==
  \E base \in BaseDirs : \E t \in LocalTrees(Resolve(base)) :
    /\ upload.pc = "idle"
    /\ Readdir(fs, Resolve(base)) = {}
    /\ \E p \in DOMAIN t : t[p] # "none"
    /\ fs' = [p \in DOMAIN fs \cup {q \in DOMAIN t : t[q] # "none"} |->
                IF p \in DOMAIN fs THEN fs[p] ELSE Entry(t[p])]
    /\ UNCHANGED <<platform, remote, pending, store, kind, pc, stack, dialogs,
                   target, opLog, pre, lastCheck, edits, opCount, streak,
                   watchVars, builds, suspended, upload>>

\* clone-local-repo up to the first readdir of cloneLocalRepo: the record of
\* the new repository is stored and made the active one; its bucket is new
CloneLocalRepo(base) ==
  /\ upload.pc = "idle"
  /\ DOMAIN remote = {}
  /\ store' = [hasRepo |-> TRUE, folderPath |-> base, activeRepo |-> TRUE]
  /\ upload' = [pc |-> "walk", root |-> Resolve(base),
                stack |-> <<Readdir(fs, Resolve(base))>>, put |-> {}]
  /\ UNCHANGED <<platform, remote, fs, pending, kind, pc, stack, dialogs,
                 target, opLog, pre, lastCheck, edits, opCount, streak,
                 watchVars, builds, suspended>>

\* s3.send(new PutObjectCommand({ Key, Body })): the key's object is replaced
PutObject(r, key, body) ==
  [k \in DOMAIN r \cup {key} |-> IF k = key THEN body ELSE r[k]]

\* one turn of the loop of cloneLocalRepo, on any entry readdir has yet to
\* yield: a directory is put as file.name + '/' and walked before the next
\* entry, a file is put as file.name
CloneLocalRepoStep ==
  /\ upload.pc = "walk"
  /\ upload.stack # <<>>
  /\ LET todo == Head(upload.stack)
         rest == Tail(upload.stack)
     IN IF todo = {}
        THEN /\ upload' = [upload EXCEPT !.stack = rest]
             /\ remote' = remote
        ELSE \E file \in todo :
               LET key == IF IsDir(fs, file) THEN Append(Basename(file), Slash)
                          ELSE Basename(file)
                   body == IF IsDir(fs, file) THEN Empty ELSE fs[file].content
                   left == <<todo \ {file}>> \o rest
               IN /\ remote' = PutObject(remote, key, body)
                  /\ upload' = [upload EXCEPT
                       !.put = @ \cup {<<file, key>>},
                       !.stack = IF IsDir(fs, file)
                                 THEN <<Readdir(fs, file)>> \o left ELSE left]
  /\ UNCHANGED <<platform, fs, pending, store, kind, pc, stack, dialogs,
                 target, opLog, pre, lastCheck, edits, opCount, streak,
                 watchVars, builds, suspended>>

\* cloneLocalRepo has returned and the dialog is shown
CloneLocalRepoReturns ==
  /\ upload.pc = "walk"
  /\ upload.stack = <<>>
  /\ upload' = [upload EXCEPT !.pc = "returned"]
  /\ dialogs' = "Clone Complete"
  /\ UNCHANGED <<platform, remote, fs, pending, store, kind, pc, stack,
                 target, opLog, pre, lastCheck, edits, opCount, streak,
                 watchVars, builds, suspended>>

NextUpload ==
  \/ UserFills
  \/ \E base \in BaseDirs : CloneLocalRepo(base)
  \/ CloneLocalRepoStep
  \/ CloneLocalRepoReturns

InitUpload == Init /\ store = NoStore /\ DOMAIN remote = {}

SpecUpload == InitUpload /\ [][NextUpload]_vars

\* the path of a local entry relative to the uploaded folder, as a key
RelKey(loc) ==
  LET rel == SubSeq(loc, Len(upload.root) + 1, Len(loc))
  IN JoinSlash(rel) \o (IF IsDir(fs, loc) THEN <<Slash>> ELSE <<>>)

Uploaded ==
  {p \in DOMAIN fs : /\ Len(p) > Len(upload.root)
                     /\ SubSeq(p, 1, Len(upload.root)) = upload.root}

\* C15 (as stated): once clone-local-repo has returned, the keys of the
\* bucket are the relative paths of the uploaded files, with a key ending in
\* '/' for each folder, and no two local entries were put under one key.
C15_UploadKeysAreRelativePaths ==
  upload.pc = "returned" =>
    /\ DOMAIN remote = {RelKey(p) : p \in Uploaded}
    /\ \A x, y \in upload.put : x[2] = y[2] => x[1] = y[1]

----------------------------------------------------------------------------
(* The folder explorer's main process on its own *)

\* explorer: ipcMain.handle('get-folder-hierarchy')
GetFolderHierarchyHandler ==
  /\ shown' = [by |-> "get", tree |-> folderPath # <<>>,
               value |-> IF folderPath # <<>>
                         THEN GetFolderHierarchy(fs, Resolve(folderPath))
                         ELSE <<>>]
  /\ UNCHANGED <<syncVars, watcher, folderPath, subs, observed, emitted,
                 ipcError, auxVars>>

NextExplorer ==
  \/ \E canceled \in BOOLEAN : \E selected \in WatchDirs :
       OpenFolderDialog(canceled, selected)
  \/ GetFolderHierarchyHandler
  \/ UserWrites
  \/ UserRemoves

SpecExplorer == InitWatch /\ [][NextExplorer]_vars

\* the relative paths of the files of a local hierarchy, as keys, in the
\* order in which the local build enumerated them
RECURSIVE FileKeys(_, _)
FileKeys(node, prefix) ==
  IF "children" \notin DOMAIN node THEN <<JoinSlash(Append(prefix, node.name))>>
  ELSE LET F[i \in 0..Len(node.children)] ==
             IF i = 0 THEN <<>>
             ELSE F[i - 1] \o FileKeys(node.children[i], Append(prefix, node.name))
       IN F[Len(node.children)]

RootFileKeys(root) ==
  LET F[i \in 0..Len(root.children)] ==
        IF i = 0 THEN <<>> ELSE F[i - 1] \o FileKeys(root.children[i], <<>>)
  IN F[Len(root.children)]

\* names, kinds and nesting of a tree, children in order
RECURSIVE Skeleton(_)
Skeleton(node) ==
  IF "children" \notin DOMAIN node
  THEN [name |-> node.name, type |-> node.type, kids |-> <<>>]
  ELSE [name |-> node.name, type |-> node.type,
        kids |-> [i \in 1..Len(node.children) |-> Skeleton(node.children[i])]]

\* C19 (as stated): the hierarchy getFolderHierarchy builds from a local
\* directory and the one getBucketHierarchy builds from the relative paths
\* of its files have the same names, kinds and nesting below the root.
C19_BuildersAgree ==
  shown.tree =>
    LET fromKeys == BuildHierarchy(RootFileKeys(shown.value), shown.value.name)
    IN /\ fromKeys.type # "TypeError"
       /\ Skeleton(fromKeys) = Skeleton(shown.value)

Under(loc, dir) == Len(loc) > Len(dir) /\ SubSeq(loc, 1, Len(dir)) = dir

\* C20: a cancelled selection leaves the explorer with no live subscription
\* and an empty current folder path; while no folder is selected no
\* 'file-changed' event is emitted and get-folder-hierarchy returns an empty
\* result; every event that is emitted comes from the subscription of the
\* folder selected last, never from an earlier one.
C20_ReleasedOnDeselection ==
  [][/\ shown'.by = "cancel" =>
          (LiveSubs("explorer")' = {} /\ folderPath' = <<>> /\ watcher' = 0)
     /\ folderPath = <<>> => emitted' = emitted
     /\ (folderPath = <<>> /\ shown'.by = "get") => ~shown'.tree
     /\ \A i \in (Len(emitted) + 1)..Len(emitted') :
          /\ emitted'[i].sub = watcher
          /\ Under(emitted'[i].path, Resolve(folderPath))]_vars

C20_Witness ==
  /\ folderPath = <<>>
  /\ shown.by = "get"
  /\ emitted # <<>>
  /\ \E i \in 1..Len(subs) :
       /\ subs[i].owner = "explorer"
       /\ ~subs[i].live
       /\ \E p \in DOMAIN fs :
            /\ IsFile(fs, p)
            /\ Under(p, subs[i].path)
            /\ \A e \in 1..Len(observed) : observed[e].path # p

====
